---- MODULE Spec2Model ----
(***************************************************************************)
(* Model of the code-index indexing engine: the distributed per-file lock  *)
(* (src/core/locks.py), the per-file orchestrator (src/core/indexer.py)    *)
(* and the two drivers that feed it (src/core/repository_indexer.py,       *)
(* src/core/commit_parser.py).                                             *)
(*                                                                         *)
(* The document store is the only shared state.  FileLock.acquire reads    *)
(* and writes the lock document through one store transaction and is one   *)
(* step; process_file is one step per store round trip, so concurrent      *)
(* calls interleave exactly at the store calls.  A scan or a commit run    *)
(* is one step per file of its loop.  FileLock.is_locked is one step for   *)
(* its read and one for the delete it issues on an expired record.  The    *)
(* commit analysis and the fallback class extraction are pure functions,   *)
(* each applied by one step to inputs drawn from bounded sets.             *)
(***************************************************************************)
EXTENDS Integers, Sequences, FiniteSets, TLC

\* ------------------------------------------------------------------ bounds
MaxTime == 3            \* the clock runs 0..MaxTime
TTL == 1                \* ttl_seconds of every FileLock, in clock units
MaxRecords == 2         \* file_indexes documents created in one behaviour
MaxDecls == 2           \* declarations of a parsed file

\* --------------------------------------------------------------- constants
None == -1              \* Python None for a time or a missing document
MinShaLen == 7          \* FileIndex.validate_sha_format

Repo == "r1"
PathA == <<"src", "a.ts">>
PathRoot == <<"index.ts">>
PathVendor == <<"vendor", "lib.ts">>
PathDocs == <<"docs", "readme.md">>
PathApp == <<"app", "b.py">>

AllPaths == {PathA, PathRoot, PathVendor, PathDocs, PathApp}

\* commit ids and the commit timestamp that travels with each of them
CommitOld == "c0ffee1"
CommitNew == "c0ffee2"
CommitShort == "abc12"
Commits == {CommitOld, CommitNew, CommitShort}
CommitTs(c) == IF c = CommitOld THEN 1 ELSE 2

Contents == {"x", "y"}
GitOutputs == {"", "gitobj1"}
Faults == {"none", "hash", "parse", "write", "meta_get", "meta_put"}

LockWorkers == {"w1", "w2", "w3"}
LockPaths == {PathA}
IdxWorkers == {"p1", "p2"}
IdxPaths == {PathA, PathRoot}
RepoUid == "uid1"       \* the id repositories.add() generates
RunFaults == {"none", "parse", "write"}
CommitMissing == "deadbee"     \* a commit id the repository does not have
RunCommits == {CommitNew, CommitMissing}
ScanFaults == {"none", "clone", "commit_info", "list"}
FinishFaults == {"none", "update"}
BadTs == 0              \* a timestamp string datetime.fromisoformat rejects
TsInputs == {BadTs, 1, 2}
GateFaults == {"none", "lookup"}
GatePaths == {PathA}
NoDoc == [exists |-> FALSE]

VARIABLES
    now,            \* datetime.utcnow()
    file_locks,     \* collection 'file_locks': lock key -> document
    lock_key,       \* FileLock.lock_key of each worker's FileLock object
    acquired_at,    \* FileLock.acquired_at
    lock_doc_ref,   \* FileLock.lock_doc_ref is set
    lpc,            \* position of the worker inside a FileLock method
    last,           \* the FileLock call that returned last, and its result
    race,           \* per lock key: history of the acquire calls on it
    file_indexes,   \* collection 'file_indexes', documents in creation order
    repositories,   \* collection 'repositories': document id -> document
    ipc,            \* position of each process_file call
    call,           \* arguments of each process_file call in flight
    meta,           \* repo_doc read by _update_repository_metadata
    lastpf,         \* the process_file call that returned last, and its result
    run,            \* the driver run: files left, counters, per-file outcome
    gate            \* the dedup check that returned last, and its result

lockVars == <<now, file_locks, lock_key, acquired_at, lock_doc_ref, lpc, last, race>>
idxVars == <<file_indexes, repositories, ipc, call, meta, lastpf>>
runVars == <<run>>
gateVars == <<gate>>

vars == <<now, file_locks, lock_key, acquired_at, lock_doc_ref, lpc, last, race,
          file_indexes, repositories, ipc, call, meta, lastpf, run, gate>>

\* ------------------------------------------------------------------- lock
LockKeys == {<<Repo, p>> : p \in LockPaths}

\* f"{repo_id}:{file_path}": the commit id is not part of the key
LockKeyOf(repo, path) == <<repo, path>>

\* existing_expires_at < now
ExpiredLe(expires_at, t) == expires_at <= t
Expired(expires_at, t) == expires_at < t

\* the document a successful acquire leaves: transaction.set on a missing
\* document, transaction.update of acquired_at, expires_at, status otherwise
LockDocKeepExpiry(old, t) == [exists |-> TRUE, acquired_at |-> t, expires_at |-> IF old.exists THEN old.expires_at ELSE t + TTL, status |-> "acquired"]
LockDoc(old, t) == [exists |-> TRUE, acquired_at |-> t, expires_at |-> t + TTL, status |-> "acquired"]

\* decision of _acquire_in_transaction on the document it read
GrantAbsentOnly(doc, t) == ~doc.exists
Grant(doc, t) == (~doc.exists) \/ Expired(doc.expires_at, t)

Sat(n, cap) == IF n < cap THEN n + 1 ELSE cap

NoCall == [w |-> "", op |-> "none", value |-> FALSE, at |-> None, saw |-> "none"]
RaceInit == [first |-> None, pure |-> TRUE, nTrue |-> 0, nFalse |-> 0]

\* what an acquire call found stored: no record, an expired one, a live one
Saw(doc, t) ==
    IF ~doc.exists THEN "absent"
    ELSE IF doc.expires_at < t THEN "expired" ELSE "live"

Tick ==
    /\ now < MaxTime
    /\ now' = now + 1
    /\ UNCHANGED <<file_locks, lock_key, acquired_at, lock_doc_ref, lpc, last, race>>
    /\ UNCHANGED <<idxVars, runVars, gateVars>>

\* acquire(): one store transaction that reads the lock document and
\* conditionally writes it
Acquire(w) ==
    LET k == lock_key[w]
        doc == file_locks[k]
        success == Grant(doc, now)
    IN  /\ lpc[w] = "idle"
        /\ lock_doc_ref' = [lock_doc_ref EXCEPT ![w] = TRUE]
        /\ file_locks' = IF success THEN [file_locks EXCEPT ![k] = LockDoc(doc, now)] ELSE file_locks
        /\ acquired_at' = IF success THEN [acquired_at EXCEPT ![w] = now] ELSE acquired_at
        /\ last' = [w |-> w, op |-> "acquire", value |-> success, at |-> now, saw |-> Saw(doc, now)]
        /\ race' = [race EXCEPT ![k].first = IF @ = None THEN now ELSE @,
                                ![k].nTrue = IF success THEN Sat(@, 2) ELSE @,
                                ![k].nFalse = IF success THEN @ ELSE Sat(@, 2)]
        /\ UNCHANGED <<now, lock_key, lpc>>
        /\ UNCHANGED <<idxVars, runVars, gateVars>>

\* self.lock_doc_ref.delete(): the document of the key goes, whatever it holds
DeleteNothing(doc) == doc
Delete(doc) == NoDoc

\* release()
Release(w) ==
    LET k == lock_key[w]
        held == acquired_at[w] # None /\ lock_doc_ref[w]
    IN  /\ lpc[w] = "idle"
        /\ file_locks' = IF held THEN [file_locks EXCEPT ![k] = Delete(@)] ELSE file_locks
        /\ acquired_at' = IF held THEN [acquired_at EXCEPT ![w] = None] ELSE acquired_at
        /\ last' = [w |-> w, op |-> "release", value |-> held, at |-> now, saw |-> "none"]
        /\ race' = IF held THEN [race EXCEPT ![k].pure = FALSE] ELSE race
        /\ UNCHANGED <<now, lock_key, lock_doc_ref, lpc>>
        /\ UNCHANGED <<idxVars, runVars, gateVars>>

\* the worker's process dies while it holds the lock; its FileLock object
\* is never used again
Crash(w) ==
    /\ lpc[w] = "idle"
    /\ acquired_at[w] # None
    /\ file_locks[lock_key[w]].exists
    /\ file_locks[lock_key[w]].expires_at < MaxTime
    /\ lpc' = [lpc EXCEPT ![w] = "crashed"]
    /\ last' = [w |-> w, op |-> "crash", value |-> FALSE, at |-> now, saw |-> "none"]
    /\ UNCHANGED <<now, file_locks, lock_key, acquired_at, lock_doc_ref, race>>
    /\ UNCHANGED <<idxVars, runVars, gateVars>>

\* value of is_locked(): False without a document reference, False for a
\* missing document, False for an expired one, True otherwise
IsLockedValueExists(ref, doc, t) == ref /\ doc.exists
IsLockedValue(ref, doc, t) == ref /\ doc.exists /\ ~Expired(doc.expires_at, t)

\* is_locked() up to its return or, on an expired document, up to the call
\* of _cleanup_expired_lock: one plain get of the lock document
IsLocked(w) ==
    LET k == lock_key[w]
        doc == file_locks[k]
        cleanup == lock_doc_ref[w] /\ doc.exists /\ Expired(doc.expires_at, now)
    IN  /\ lpc[w] = "idle"
        /\ lpc' = IF cleanup THEN [lpc EXCEPT ![w] = "cleanup"] ELSE lpc
        /\ last' = IF cleanup THEN last
                   ELSE [w |-> w, op |-> "is_locked", value |-> IsLockedValue(lock_doc_ref[w], doc, now),
                         at |-> now, saw |-> Saw(doc, now)]
        /\ UNCHANGED <<now, file_locks, lock_key, acquired_at, lock_doc_ref, race>>
        /\ UNCHANGED <<idxVars, runVars, gateVars>>

\* _cleanup_expired_lock() and the return of is_locked(): a plain delete of
\* the document of the key, in a store round trip of its own
IsLockedCleanup(w) ==
    LET k == lock_key[w]
    IN  /\ lpc[w] = "cleanup"
        /\ file_locks' = [file_locks EXCEPT ![k] = Delete(@)]
        /\ lpc' = [lpc EXCEPT ![w] = "idle"]
        /\ last' = [w |-> w, op |-> "is_locked", value |-> FALSE, at |-> now, saw |-> "expired"]
        /\ race' = [race EXCEPT ![k].pure = FALSE]
        /\ UNCHANGED <<now, lock_key, acquired_at, lock_doc_ref>>
        /\ UNCHANGED <<idxVars, runVars, gateVars>>

\* new_expires_at = datetime.utcnow() + timedelta(seconds=additional_seconds)
ExtendedExpiry(old, t, additional_seconds) == t + additional_seconds

\* extend_ttl(additional_seconds); update() of a missing document raises,
\* which the method catches and answers with False
ExtendTtl(w, additional_seconds) ==
    LET k == lock_key[w]
        doc == file_locks[k]
        held == acquired_at[w] # None /\ lock_doc_ref[w]
        ok == held /\ doc.exists
    IN  /\ lpc[w] = "idle"
        /\ file_locks' = IF ok
                         THEN [file_locks EXCEPT ![k].expires_at = ExtendedExpiry(@, now, additional_seconds)]
                         ELSE file_locks
        /\ last' = [w |-> w, op |-> "extend_ttl", value |-> ok, at |-> now, saw |-> Saw(doc, now)]
        /\ race' = IF ok THEN [race EXCEPT ![k].pure = FALSE] ELSE race
        /\ UNCHANGED <<now, lock_key, acquired_at, lock_doc_ref, lpc>>
        /\ UNCHANGED <<idxVars, runVars, gateVars>>

\* ---------------------------------------------------------------- indexer
\* hashlib.sha256(file_content.encode()).hexdigest()
Sha256(content) == "sha256:" \o content

\* _get_git_file_hash: the object name git ls-files prints for the path in
\* the process's working directory, the content hash when it prints none
GitFileHash(content, git) == IF git # "" THEN git ELSE Sha256(content)

\* FileIndex.validate_sha_format
ValidShaAny(v) == TRUE
ValidSha(v) == ~(v = "" \/ Len(v) < MinShaLen)

\* parse_result.exports / parse_result.imports of parser.parse_file
ParseFile(content) == "exports:" \o content
NoExports == "[]"

\* exports and imports after lines 149-164: the caller's, the parser's, or
\* empty lists when the parser raised
ExportsOfParsed(a) == IF a.given THEN "given" ELSE ParseFile(a.content)
ExportsOf(a) ==
    IF a.given THEN "given"
    ELSE IF a.fault = "parse" THEN NoExports ELSE ParseFile(a.content)

\* the steps of one process_file call that raise before the record is stored
RaisedBeforeWrite(a) ==
    LET h == GitFileHash(a.content, a.git)
    IN  IF a.fault = "hash" THEN {"hash"}
        ELSE (IF ~a.given /\ a.fault = "parse" THEN {"parse"} ELSE {})
             \cup (IF ~(ValidSha(h) /\ ValidSha(a.commit)) THEN {"construct"}
                   ELSE IF a.fault = "write" THEN {"write"} ELSE {})

\* the exceptions that reach the except clause of process_file (line 176);
\* a parser exception is caught at line 161 and never gets there
PropagatesAll(raised) == FALSE
Propagates(raised) == raised \cap {"hash", "construct", "write"} # {}

\* the document _index_file_with_lock stores
FileIndex(a, t) ==
    [repoId |-> Repo, filePath |-> a.path, fileHash |-> GitFileHash(a.content, a.git),
     lastCommitSHA |-> a.commit, lastCommitTimestamp |-> CommitTs(a.commit),
     exports |-> ExportsOf(a), updatedAt |-> t]

\* self.file_indexes.document() makes a new document id on every call
StoreRecord(docs, rec) == Append(docs, rec)

\* _update_repository_metadata of the indexer: what it writes on the
\* document it read (repo_doc) over the document stored now
MetaWrite(stored, read, commit) ==
    IF read.exists
    THEN [stored EXCEPT !.lastProcessedCommit = commit,
                        !.lastProcessedCommitTimestamp = CommitTs(commit),
                        !.processedFiles = read.processedFiles + 1]
    ELSE [exists |-> TRUE, lastProcessedCommit |-> commit,
          lastProcessedCommitTimestamp |-> CommitTs(commit),
          totalFiles |-> 0, processedFiles |-> 1, status |-> "processing"]

\* a lock record for the file exists and has not expired
LockHeld(path) ==
    LET k == LockKeyOf(Repo, path)
    IN  k \in DOMAIN file_locks /\ file_locks[k].exists /\ ~Expired(file_locks[k].expires_at, now)

\* arguments of a process_file call; a fault names the step that raises.
\* The calls are the plain one (a parsable file of CommitNew, no git object
\* name, nothing raising) and the calls that differ from it in the commit
\* and in one more argument; PathRoot only gets the plain call.
PlainArgs(p) == [path |-> p, commit |-> CommitNew, content |-> "x", git |-> "", fault |-> "none", given |-> FALSE]
PFArgs ==
    {PlainArgs(p) : p \in IdxPaths}
    \cup {[PlainArgs(PathA) EXCEPT !.commit = c] : c \in Commits}
    \cup {[PlainArgs(PathA) EXCEPT !.commit = c, !.content = "y"] : c \in Commits \ {CommitShort}}
    \cup {[PlainArgs(PathA) EXCEPT !.commit = c, !.git = g] : c \in Commits \ {CommitShort}, g \in GitOutputs}
    \cup {[PlainArgs(PathA) EXCEPT !.commit = c, !.fault = f] : c \in Commits \ {CommitShort}, f \in Faults}
    \cup {[PlainArgs(PathA) EXCEPT !.commit = c, !.given = TRUE] : c \in Commits \ {CommitShort}}
    \cup {[PlainArgs(PathA) EXCEPT !.commit = CommitShort, !.fault = "parse"]}

\* no process_file call
NoArgs == [path |-> <<>>, commit |-> "", content |-> "", git |-> "", fault |-> "none", given |-> FALSE]

\* what a call in flight still needs after its record is stored
NoFlight == [path |-> <<>>, commit |-> "", fault |-> "none", raised |-> {}, locked |-> FALSE, dup |-> FALSE]
NoCallPF == [w |-> "", path |-> <<>>, value |-> FALSE, raised |-> {}, wrote |-> FALSE,
             counted |-> FALSE, locked |-> FALSE, dup |-> FALSE]

\* an earlier call with the same (repository, path, content, commit) has
\* stored its record
Stored(a) ==
    \E i \in 1..Len(file_indexes) :
        /\ file_indexes[i].filePath = a.path
        /\ file_indexes[i].lastCommitSHA = a.commit
        /\ file_indexes[i].fileHash = GitFileHash(a.content, a.git)

\* process_file from entry to the store write of _index_file_with_lock
\* (lines 131-171 and 193-210), or to 'return False' when a step raised
ProcessFileWrite(w, a) ==
    LET raised == RaisedBeforeWrite(a)
        ok == ~Propagates(raised)
        locked == LockHeld(a.path)
        dup == Stored(a) /\ \A v \in IdxWorkers : ipc[v] = "idle"
    IN  /\ ipc[w] = "idle"
        /\ Len(file_indexes) < MaxRecords
        /\ file_indexes' = IF ok THEN StoreRecord(file_indexes, FileIndex(a, now)) ELSE file_indexes
        /\ ipc' = [ipc EXCEPT ![w] = IF ok THEN "meta_get" ELSE "idle"]
        /\ call' = [call EXCEPT ![w] =
                        IF ok THEN [path |-> a.path, commit |-> a.commit, fault |-> a.fault,
                                    raised |-> raised, locked |-> locked, dup |-> dup]
                        ELSE NoFlight]
        /\ lastpf' = IF ok THEN lastpf
                     ELSE [w |-> w, path |-> a.path, value |-> FALSE, raised |-> raised,
                           wrote |-> FALSE, counted |-> FALSE, locked |-> locked, dup |-> dup]
        /\ UNCHANGED <<repositories, meta>>
        /\ UNCHANGED <<lockVars, runVars, gateVars>>

\* _update_repository_metadata: repo_ref.get() (lines 252-260); an exception
\* is logged at line 286 and process_file goes on to 'return True'
ProcessFileMetaGet(w) ==
    LET failed == call[w].fault = "meta_get"
    IN  /\ ipc[w] = "meta_get"
        /\ meta' = [meta EXCEPT ![w] = IF failed THEN NoDoc ELSE repositories[Repo]]
        /\ ipc' = [ipc EXCEPT ![w] = IF failed THEN "idle" ELSE "meta_put"]
        /\ lastpf' = IF failed
                     THEN [w |-> w, path |-> call[w].path, value |-> TRUE,
                           raised |-> call[w].raised \cup {"meta_get"}, wrote |-> TRUE,
                           counted |-> FALSE, locked |-> call[w].locked, dup |-> call[w].dup]
                     ELSE lastpf
        /\ call' = [call EXCEPT ![w] = IF failed THEN NoFlight ELSE @]
        /\ UNCHANGED <<file_indexes, repositories>>
        /\ UNCHANGED <<lockVars, runVars, gateVars>>

\* _update_repository_metadata: repo_ref.update() or repo_ref.set() (lines
\* 261-281), then process_file returns True (line 174)
ProcessFileMetaPut(w) ==
    LET failed == call[w].fault = "meta_put"
    IN  /\ ipc[w] = "meta_put"
        /\ repositories' = IF failed THEN repositories
                           ELSE [repositories EXCEPT ![Repo] = MetaWrite(@, meta[w], call[w].commit)]
        /\ ipc' = [ipc EXCEPT ![w] = "idle"]
        /\ lastpf' = [w |-> w, path |-> call[w].path, value |-> TRUE,
                      raised |-> call[w].raised \cup (IF failed THEN {"meta_put"} ELSE {}),
                      wrote |-> TRUE, counted |-> ~failed,
                      locked |-> call[w].locked, dup |-> call[w].dup]
        /\ call' = [call EXCEPT ![w] = NoFlight]
        /\ meta' = [meta EXCEPT ![w] = NoDoc]
        /\ UNCHANGED <<file_indexes>>
        /\ UNCHANGED <<lockVars, runVars, gateVars>>

\* ------------------------------------------------------------ dedup gate
\* get_file_index: the first document of the query on repoId and filePath
\* with limit(1).  The query has no order_by, so the store orders by the
\* generated document ids and any matching document can be the first; pick
\* is the one that is.  An exception of the query gives None.
Matching(docs, path) == {k \in 1..Len(docs) : docs[k].repoId = Repo /\ docs[k].filePath = path}
GetFileIndex(docs, path, fault, pick) ==
    IF fault = "lookup" \/ Matching(docs, path) = {}
    THEN NoDoc
    ELSE [exists |-> TRUE, fileHash |-> docs[pick].fileHash,
          lastCommitTimestamp |-> docs[pick].lastCommitTimestamp]
Picks(docs, path) == IF Matching(docs, path) = {} THEN {0} ELSE Matching(docs, path)

\* datetime.fromisoformat(ts.replace('Z', '+00:00')) raises on a string
\* that is no ISO 8601 timestamp
FromIsoFormatRaises(ts) == ts = BadTs

\* 'return True  # Process on error to be safe' of both checks
OnErrorSkip == FALSE
OnError == TRUE

\* should_process_file on what get_file_index returned
ShouldProcessFileValue(existing, file_hash) ==
    ~(existing.exists /\ existing.fileHash = file_hash)

\* should_process_file_by_timestamp on what get_file_index returned
ShouldProcessFileByTimestampValue(existing, file_timestamp) ==
    IF ~existing.exists THEN TRUE
    ELSE IF FromIsoFormatRaises(existing.lastCommitTimestamp) \/ FromIsoFormatRaises(file_timestamp)
         THEN OnError
         ELSE ~(file_timestamp < existing.lastCommitTimestamp)

NoGate ==
    [op |-> "none", value |-> FALSE, raised |-> {}, found |-> FALSE,
     same |-> FALSE, newer |-> FALSE]

\* should_process_file(repo_url, file_path, file_hash)
ShouldProcessFile(path, file_hash, fault) ==
    /\ \E pick \in Picks(file_indexes, path) :
        LET existing == GetFileIndex(file_indexes, path, fault, pick)
        IN  gate' = [op |-> "hash",
                     value |-> ShouldProcessFileValue(existing, file_hash),
                     raised |-> IF fault = "lookup" THEN {"lookup"} ELSE {},
                     found |-> Matching(file_indexes, path) # {},
                     same |-> \E k \in Matching(file_indexes, path) :
                                    file_indexes[k].fileHash = file_hash,
                     newer |-> FALSE]
    /\ UNCHANGED <<lockVars, idxVars, runVars>>

\* should_process_file_by_timestamp(repo_url, file_path, file_timestamp)
ShouldProcessFileByTimestamp(path, file_timestamp, fault) ==
    /\ \E pick \in Picks(file_indexes, path) :
        LET existing == GetFileIndex(file_indexes, path, fault, pick)
        IN  gate' = [op |-> "timestamp",
                     value |-> ShouldProcessFileByTimestampValue(existing, file_timestamp),
                     raised |-> (IF fault = "lookup" THEN {"lookup"} ELSE {})
                                \cup (IF existing.exists /\ FromIsoFormatRaises(file_timestamp)
                                      THEN {"parse"} ELSE {}),
                     found |-> Matching(file_indexes, path) # {},
                     same |-> FALSE,
                     newer |-> \E k \in Matching(file_indexes, path) :
                                    file_timestamp < file_indexes[k].lastCommitTimestamp]
    /\ UNCHANGED <<lockVars, idxVars, runVars>>

\* _get_git_file_hash(file_path, file_content) called on its own; git is
\* what 'git ls-files' prints for file_path in the working directory of the
\* process.  The computation before it is kept next to its result.
GetGitFileHash(path, content, git) ==
    /\ gate' = [op |-> "fingerprint", path |-> path, content |-> content,
                value |-> GitFileHash(content, git),
                before |-> IF gate.op = "fingerprint"
                           THEN <<gate.content, gate.value>> ELSE <<>>]
    /\ UNCHANGED <<lockVars, idxVars, runVars>>

\* ----------------------------------------------------------------- parser
\* Path.suffix.lower() and the extensions _get_repository_files keeps
Suffix(parts) ==
    IF parts \in {PathA, PathRoot, PathVendor} THEN ".ts"
    ELSE IF parts = PathApp THEN ".py" ELSE ".md"
Extensions == {".ts", ".js", ".tsx", ".jsx", ".py", ".go", ".java", ".cs"}

\* a source file as the parser sees it: its export declarations in file
\* order, each one either extracted (ok) or one whose extraction raises
Decls ==
    {[name |-> "f", ok |-> TRUE], [name |-> "g", ok |-> TRUE], [name |-> "h", ok |-> FALSE]}
RECURSIVE SeqsUpTo(_, _)
SeqsUpTo(S, n) ==
    IF n = 0 THEN {<<>>}
    ELSE SeqsUpTo(S, n - 1) \cup {Append(q, x) : q \in SeqsUpTo(S, n - 1), x \in S}
Files == SeqsUpTo(Decls, MaxDecls)
ParsePaths == {PathA, PathApp, PathDocs}
ParseFaults == {"none", "parser"}

\* CodeParser.detect_language
DetectLanguage(parts) ==
    IF Suffix(parts) \in {".ts", ".tsx", ".js", ".jsx"} THEN "typescript"
    ELSE IF Suffix(parts) \in {".py", ".pyi"} THEN "python"
    ELSE "unknown"

\* _extract_exports of a language parser: a declaration whose extraction
\* raises is logged and left out (typescript/main.py 65-76, python.py 75-96)
RECURSIVE ExtractExports(_)
ExtractExports(decls) ==
    IF decls = <<>> THEN <<>>
    ELSE IF Head(decls).ok
         THEN <<Head(decls).name>> \o ExtractExports(Tail(decls))
         ELSE ExtractExports(Tail(decls))

\* the ParseResult of CodeParser.parse_file; fault "parser" is the language
\* parser's parse() raising as a whole
ParseResult(parts, decls, fault) ==
    IF DetectLanguage(parts) = "unknown"
    THEN [language |-> "unknown", exports |-> <<>>, parse_errors |-> <<"unsupported">>]
    ELSE IF fault = "parser"
    THEN [language |-> DetectLanguage(parts), exports |-> <<>>, parse_errors |-> <<"error">>]
    ELSE [language |-> DetectLanguage(parts), exports |-> ExtractExports(decls),
          parse_errors |-> <<>>]

\* CodeParser.parse_file(file_path, content) called on its own
ParseFileCall(parts, decls, fault) ==
    /\ gate' = [op |-> "parse", decls |-> decls, fault |-> fault,
                result |-> ParseResult(parts, decls, fault)]
    /\ UNCHANGED <<lockVars, idxVars, runVars>>

\* ------------------------------------------------- fallback class members
MaxBody == 3            \* pieces of text between the braces of a class

\* a file as a sequence of pieces of text: "nl" is a line break, "class"
\* is `export class Foo`, the members are `bar() {}`, `x: number;` and
\* `constructor() {}`
MemberKinds == {"method", "property", "constructor"}
Bodies == SeqsUpTo(MemberKinds \cup {"nl"}, MaxBody)
RECURSIVE Blank(_)
Blank(n) == IF n = 0 THEN <<>> ELSE <<"nl">> \o Blank(n - 1)
ClassFile(lead, brace_on_next_line, body) ==
    Blank(lead) \o <<"class">> \o (IF brace_on_next_line THEN <<"nl">> ELSE <<>>)
        \o <<"{">> \o body \o <<"}">>
ClassFiles ==
    {ClassFile(lead, b, body) : lead \in 0..1, b \in BOOLEAN, body \in Bodies}

\* content[:pos].count('\n')
CountNl(content, pos) == Cardinality({i \in 1..(pos - 1) : content[i] = "nl"})
PosOf(content, piece) == CHOOSE i \in 1..Len(content) : content[i] = piece

\* line_num = content[:match.start()].count('\n') + 1 of the class match
ClassLineNum(content) == CountNl(content, PosOf(content, "class")) + 1

\* class_body = content[start_pos + 1:end_pos]
ClassBody(content) ==
    SubSeq(content, PosOf(content, "{") + 1, PosOf(content, "}") - 1)

\* line_num + class_body[:match.start()].count('\n') + 1
MemberLine(line_num, class_body, i) == line_num + CountNl(class_body, i) + 1

\* the members parse_class_info reports: the first match of each name
ParseClassInfo(content, line_num) ==
    LET class_body == ClassBody(content)
        first == {i \in 1..Len(class_body) :
                    /\ class_body[i] \in MemberKinds
                    /\ \A j \in 1..(i - 1) : class_body[j] # class_body[i]}
    IN  {[kind |-> class_body[i], pos |-> PosOf(content, "{") + i,
          lineNumber |-> MemberLine(line_num, class_body, i)] : i \in first}

\* _extract_exports_regex on a file with one exported class
ExtractClassCall(content) ==
    /\ gate' = [op |-> "class", content |-> content,
                members |-> ParseClassInfo(content, ClassLineNum(content))]
    /\ UNCHANGED <<lockVars, idxVars, runVars>>

\* --------------------------------------------------------- commit analysis
MaxChanges == 2         \* entries of one diff

AnalyzePaths == {PathA, PathRoot, PathApp, PathVendor}
ChangeTypes == {"A", "D", "M", "R", "T"}

\* the entries parent.diff(commit) can hold: a rename carries the old path
\* in a_path and the new one in b_path, every other entry the same path twice
Changes ==
    {[a_path |-> p, b_path |-> p, change_type |-> t] :
        p \in AnalyzePaths, t \in ChangeTypes \ {"R"}}
    \cup {[a_path |-> x[1], b_path |-> x[2], change_type |-> "R"] :
            x \in {y \in AnalyzePaths \X AnalyzePaths : y[1] # y[2]}}

\* diffs: no path is the old path of two entries or the new path of two
RECURSIVE DiffsUpTo(_)
DiffsUpTo(n) ==
    IF n = 0 THEN {{}}
    ELSE LET shorter == DiffsUpTo(n - 1)
         IN  shorter \cup
             UNION {{d \cup {c} :
                        c \in {x \in Changes :
                                \A y \in d : x.a_path # y.a_path /\ x.b_path # y.b_path}} :
                    d \in shorter}
Diffs == DiffsUpTo(MaxChanges)

\* file_path = change.a_path or change.b_path
FilePath(change) == IF change.a_path # <<>> THEN change.a_path ELSE change.b_path

\* the paths of the entries of one change type
OfType(diff, t) == {FilePath(c) : c \in {d \in diff : FilePath(d) # <<>> /\ d.change_type = t}}

\* the four sets _analyze_commit returns
AnalyzeCommit(has_parents, diff, tree) ==
    IF has_parents
    THEN [changed_files |-> {FilePath(c) : c \in {d \in diff : FilePath(d) # <<>>}},
          added_files |-> OfType(diff, "A"),
          deleted_files |-> OfType(diff, "D"),
          modified_files |-> OfType(diff, "M")]
    ELSE [changed_files |-> tree, added_files |-> tree,
          deleted_files |-> {}, modified_files |-> {}]

\* CommitParser._analyze_commit(repo_path, commit_sha) called on its own
AnalyzeCommitCall(has_parents, diff, tree) ==
    /\ gate' = [op |-> "analyze", has_parents |-> has_parents, diff |-> diff, tree |-> tree,
                result |-> AnalyzeCommit(has_parents, diff, tree)]
    /\ UNCHANGED <<lockVars, idxVars, runVars>>

\* ---------------------------------------------------------------- drivers
\* process_file run to its end by one caller with nothing interleaved:
\* the value it returns and what it leaves in the two collections
PFReturn(a) == ~Propagates(RaisedBeforeWrite(a))
PFRaised(a) ==
    RaisedBeforeWrite(a)
        \cup (IF PFReturn(a) /\ a.fault \in {"meta_get", "meta_put"} THEN {a.fault} ELSE {})
PFIndexes(docs, a, t) == IF PFReturn(a) THEN StoreRecord(docs, FileIndex(a, t)) ELSE docs
PFRepositories(repos, a) ==
    IF PFReturn(a) /\ a.fault \notin {"meta_get", "meta_put"}
    THEN [repos EXCEPT ![Repo] = MetaWrite(@, @, a.commit)]
    ELSE repos

\* CommitParser._is_file_in_allowed_folder on Path(file_path).parts
AllowedFolders == {"src", "app", "packages"}
IsFileInAllowedFolderNoRoot(parts) == parts[1] \in AllowedFolders
IsFileInAllowedFolder(parts) == Len(parts) = 1 \/ parts[1] \in AllowedFolders

\* file_path in commit_info["deleted_files"]
IsDeletedNever(p, deleted) == FALSE
IsDeleted(p, deleted) == p \in deleted

\* the paths as strings in the order files.sort() gives them
SortedPaths == <<PathApp, PathDocs, PathRoot, PathA, PathVendor>>
InOrder(S) == SelectSeq(SortedPaths, LAMBDA p : p \in S)

\* RepositoryIndexer._get_repository_files over the files of the clone
GetRepositoryFiles(tree) ==
    InOrder({p \in tree : Suffix(p) \in Extensions
                          /\ (Len(p) = 1 \/ p[1] \in AllowedFolders)})

NoRun ==
    [kind |-> "none", commit |-> "", todo |-> <<>>, deleted |-> {}, total |-> 0,
     processed |-> 0, failed |-> 0, skipped |-> 0, log |-> <<>>, error |-> ""]

\* what one loop iteration did with its file
Entry(p, bucket, found, a) ==
    [path |-> p, bucket |-> bucket, found |-> found,
     invoked |-> a # NoArgs,
     parsed |-> a # NoArgs /\ a.fault # "hash" /\ ~a.given,
     raised |-> IF a = NoArgs THEN {} ELSE PFRaised(a)]

\* processed += 1, failed += 1 or skipped += 1
CountNoSkipped(r, bucket, n) ==
    [r EXCEPT !.processed = @ + (IF bucket = "processed" THEN n ELSE 0),
              !.failed = @ + (IF bucket = "failed" THEN n ELSE 0)]
Count(r, bucket, n) ==
    [r EXCEPT !.processed = @ + (IF bucket = "processed" THEN n ELSE 0),
              !.failed = @ + (IF bucket = "failed" THEN n ELSE 0),
              !.skipped = @ + (IF bucket = "skipped" THEN n ELSE 0)]

RunArgs(p, fault) ==
    [path |-> p, commit |-> run.commit, content |-> "x", git |-> "", fault |-> fault, given |-> FALSE]

\* one iteration of the file loop once the driver decided to read the file:
\* 'File not found' or process_file and the bucket its result selects
LoopFile(p, found, fault) ==
    LET a == RunArgs(p, fault)
        bucket == IF found /\ PFReturn(a) THEN "processed" ELSE "failed"
    IN  /\ run' = [Count(run, bucket, 1) EXCEPT
                       !.todo = Tail(@),
                       !.log = Append(@, Entry(p, bucket, found, IF found THEN a ELSE NoArgs))]
        /\ file_indexes' = IF found THEN PFIndexes(file_indexes, a, now) ELSE file_indexes
        /\ repositories' = IF found THEN PFRepositories(repositories, a) ELSE repositories

\* status of the RepositoryMetadata index_repository builds (line 79)
InitialStatusPending == "pending"
InitialStatus == "processing"

\* index_repository up to the file loop: clone, commit info, the metadata
\* row repositories.add() creates, the list of files
StartScan(tree, fault) ==
    /\ run.kind = "none"
    /\ IF fault \in {"clone", "commit_info"}
       THEN /\ run' = [NoRun EXCEPT !.kind = "scan_raised", !.error = fault]
            /\ UNCHANGED repositories
       ELSE /\ run' = IF fault = "list"
                      THEN [NoRun EXCEPT !.kind = "scan_failing", !.commit = CommitOld,
                                         !.error = fault]
                      ELSE [NoRun EXCEPT !.kind = "scan", !.commit = CommitOld,
                                         !.todo = GetRepositoryFiles(tree),
                                         !.total = Len(GetRepositoryFiles(tree))]
            /\ repositories' = [repositories EXCEPT ![RepoUid] =
                    [exists |-> TRUE, lastProcessedCommit |-> CommitOld,
                     lastProcessedCommitTimestamp |-> CommitTs(CommitOld),
                     totalFiles |-> 0, processedFiles |-> 0, status |-> InitialStatus,
                     errorMessage |-> ""]]
    /\ UNCHANGED <<file_indexes, ipc, call, meta, lastpf>>
    /\ UNCHANGED <<lockVars, gateVars>>

\* one iteration of the loop of _process_repository_files
ScanFile(found, fault) ==
    /\ run.kind = "scan"
    /\ run.todo # <<>>
    /\ LoopFile(Head(run.todo), found, fault)
    /\ UNCHANGED <<ipc, call, meta, lastpf>>
    /\ UNCHANGED <<lockVars, gateVars>>

\* index_repository after the loop: the final update of its metadata row,
\* which raises when the store refuses it
FinishScan(fault) ==
    /\ run.kind = "scan"
    /\ run.todo = <<>>
    /\ IF fault = "update"
       THEN /\ run' = [run EXCEPT !.kind = "scan_failing", !.error = fault]
            /\ UNCHANGED repositories
       ELSE /\ run' = [run EXCEPT !.kind = "scan_done"]
            /\ repositories' = [repositories EXCEPT ![RepoUid] =
                    [@ EXCEPT !.status = "completed", !.totalFiles = run.total,
                              !.processedFiles = run.processed]]
    /\ UNCHANGED <<file_indexes, ipc, call, meta, lastpf>>
    /\ UNCHANGED <<lockVars, gateVars>>

\* the except clause of index_repository once repo_uid is known (lines
\* 123-133): the row is marked failed with str(e), and e is raised again
FailScan ==
    /\ run.kind = "scan_failing"
    /\ run' = [run EXCEPT !.kind = "scan_raised"]
    /\ repositories' = [repositories EXCEPT ![RepoUid] =
            [@ EXCEPT !.status = "failed", !.errorMessage = run.error]]
    /\ UNCHANGED <<file_indexes, ipc, call, meta, lastpf>>
    /\ UNCHANGED <<lockVars, gateVars>>

\* process_commit up to the file loop: the metadata lookup by repo_url
\* (ValueError when there is no document) and the commit analysis, which
\* raises when the repository has no such commit
StartCommit(commit, changed, deleted) ==
    /\ run.kind \in {"none", "scan_done"}
    /\ run' = IF ~repositories[Repo].exists
              THEN [NoRun EXCEPT !.kind = "commit_raised", !.error = "not_found"]
              ELSE IF commit \notin Commits
              THEN [NoRun EXCEPT !.kind = "commit_raised", !.error = "commit"]
              ELSE [NoRun EXCEPT !.kind = "commit", !.commit = commit,
                                 !.todo = InOrder(changed), !.deleted = deleted,
                                 !.total = Cardinality(changed)]
    /\ UNCHANGED <<file_indexes, repositories, ipc, call, meta, lastpf>>
    /\ UNCHANGED <<lockVars, gateVars>>

\* one iteration of the loop of _process_changed_files
CommitFile(found, fault) ==
    /\ run.kind = "commit"
    /\ run.todo # <<>>
    /\ LET p == Head(run.todo)
       IN  IF ~IsFileInAllowedFolder(p) \/ IsDeleted(p, run.deleted)
           THEN /\ run' = [Count(run, "skipped", 1) EXCEPT
                               !.todo = Tail(@),
                               !.log = Append(@, Entry(p, "skipped", found, NoArgs))]
                /\ UNCHANGED <<file_indexes, repositories>>
           ELSE LoopFile(p, found, fault)
    /\ UNCHANGED <<ipc, call, meta, lastpf>>
    /\ UNCHANGED <<lockVars, gateVars>>

\* process_commit after the loop: CommitParser._update_repository_metadata
FinishCommit ==
    /\ run.kind = "commit"
    /\ run.todo = <<>>
    /\ run' = [run EXCEPT !.kind = "commit_done"]
    /\ repositories' = [repositories EXCEPT ![Repo] =
            IF @.exists
            THEN [@ EXCEPT !.lastProcessedCommit = run.commit,
                           !.lastProcessedCommitTimestamp = CommitTs(run.commit),
                           !.processedFiles = @ + run.processed]
            ELSE @]
    /\ UNCHANGED <<file_indexes, ipc, call, meta, lastpf>>
    /\ UNCHANGED <<lockVars, gateVars>>

\* ------------------------------------------------------------------- init
\* no lock object has acquired anything, both collections are empty, no run
Init ==
    /\ now = 0
    /\ file_locks = [k \in LockKeys |-> NoDoc]
    /\ lock_key \in [LockWorkers -> LockKeys]
    /\ acquired_at = [w \in LockWorkers |-> None]
    /\ lock_doc_ref = [w \in LockWorkers |-> FALSE]
    /\ lpc = [w \in LockWorkers |-> "idle"]
    /\ last = NoCall
    /\ race = [k \in LockKeys |-> RaceInit]
    /\ file_indexes = <<>>
    /\ repositories = [r \in {Repo, RepoUid} |-> NoDoc]
    /\ ipc = [w \in IdxWorkers |-> "idle"]
    /\ call = [w \in IdxWorkers |-> NoFlight]
    /\ meta = [w \in IdxWorkers |-> NoDoc]
    /\ lastpf = NoCallPF
    /\ run = NoRun
    /\ gate = NoGate

NextLock ==
    \/ Tick
    \/ \E w \in LockWorkers : Acquire(w)
    \/ \E w \in LockWorkers : Release(w)
    \/ \E w \in LockWorkers : Crash(w)

SpecLock == Init /\ [][NextLock]_vars

\* two FileLock objects of one key used through every method of the class
OpsWorkers == {"w1", "w2"}
Extras == {1, 2}        \* additional_seconds of an extend_ttl call

NextLockOps ==
    \/ Tick
    \/ \E w \in OpsWorkers : Acquire(w)
    \/ \E w \in OpsWorkers : Release(w)
    \/ \E w \in OpsWorkers : IsLocked(w)
    \/ \E w \in OpsWorkers : IsLockedCleanup(w)
    \/ \E w \in OpsWorkers, s \in Extras : ExtendTtl(w, s)

SpecLockOps == Init /\ [][NextLockOps]_vars

\* the clock keeps advancing and every live worker keeps calling acquire
\* and, as __aexit__ does after an acquire, release
SpecLockFair ==
    /\ Init
    /\ [][NextLock]_vars
    /\ WF_vars(Tick)
    /\ \A w \in LockWorkers : WF_vars(Acquire(w)) /\ WF_vars(Release(w))

\* concurrent process_file calls, next to one other client of the file lock
LockClient == "w1"

NextIdx ==
    \/ \E w \in IdxWorkers, a \in PFArgs : ProcessFileWrite(w, a)
    \/ \E w \in IdxWorkers : ProcessFileMetaGet(w)
    \/ \E w \in IdxWorkers : ProcessFileMetaPut(w)

SpecIdx == Init /\ [][NextIdx]_vars

\* one process_file caller next to one other client of the file lock
Caller == "p1"

NextIdxLock ==
    \/ \E a \in PFArgs : ProcessFileWrite(Caller, a)
    \/ ProcessFileMetaGet(Caller)
    \/ ProcessFileMetaPut(Caller)
    \/ Acquire(LockClient)
    \/ Release(LockClient)

SpecIdxLock == Init /\ [][NextIdxLock]_vars

\* a full scan of the whole tree with no failure, next to one other caller
\* of process_file on the same repository
NextScanIdx ==
    \/ \E a \in PFArgs : ProcessFileWrite(Caller, a)
    \/ ProcessFileMetaGet(Caller)
    \/ ProcessFileMetaPut(Caller)
    \/ StartScan(AllPaths, "none")
    \/ ScanFile(TRUE, "none")
    \/ FinishScan("none")

SpecScanIdx == Init /\ [][NextScanIdx]_vars

\* the two dedup checks called on the store one process_file caller fills
\* with records of one file, of two contents and two commits
GateArgs ==
    {[PlainArgs(p) EXCEPT !.commit = c, !.content = k] :
        p \in GatePaths, c \in {CommitOld, CommitNew}, k \in Contents}

NextGate ==
    \/ \E a \in GateArgs : ProcessFileWrite(Caller, a)
    \/ ProcessFileMetaGet(Caller)
    \/ ProcessFileMetaPut(Caller)
    \/ \E path \in GatePaths, content \in Contents, fault \in GateFaults :
            ShouldProcessFile(path, Sha256(content), fault)
    \/ \E path \in GatePaths, ts \in TsInputs, fault \in GateFaults :
            ShouldProcessFileByTimestamp(path, ts, fault)

SpecGate == Init /\ [][NextGate]_vars

\* the fingerprint computation and the parser, called on their own
NextPure ==
    \/ \E path \in IdxPaths, content \in Contents, git \in GitOutputs :
            GetGitFileHash(path, content, git)
    \/ \E path \in ParsePaths, decls \in Files, fault \in ParseFaults :
            ParseFileCall(path, decls, fault)

SpecPure == Init /\ [][NextPure]_vars

\* the fallback extraction called on files that hold one exported class
NextClass == \E content \in ClassFiles : ExtractClassCall(content)

SpecClass == Init /\ [][NextClass]_vars

\* the commit analysis called on a commit with a parent and on a root commit
NextAnalyze ==
    \/ \E diff \in Diffs : AnalyzeCommitCall(TRUE, diff, {})
    \/ \E tree \in SUBSET AnalyzePaths : AnalyzeCommitCall(FALSE, {}, tree)

SpecAnalyze == Init /\ [][NextAnalyze]_vars

\* a first full scan of the repository, then one commit delivery; the
\* commit's deletions are among its changed paths
Deletable == {PathApp, PathVendor}

NextRun ==
    \/ \E tree \in SUBSET AllPaths, fault \in ScanFaults : StartScan(tree, fault)
    \/ \E found \in BOOLEAN, fault \in RunFaults : ScanFile(found, fault)
    \/ \E fault \in FinishFaults : FinishScan(fault)
    \/ FailScan
    \/ \E commit \in RunCommits, changed \in SUBSET AllPaths :
            \E deleted \in SUBSET (Deletable \cap changed) : StartCommit(commit, changed, deleted)
    \/ \E found \in BOOLEAN, fault \in RunFaults : CommitFile(found, fault)
    \/ FinishCommit

SpecRun == Init /\ [][NextRun]_vars

\* C1: while only acquire calls have touched a lock key and no TTL has
\* elapsed since the first of them, exactly one of the acquire calls made
\* on that key has returned true and all the others false.
C1_ExactlyOneAcquire ==
    \A k \in LockKeys :
        (race[k].pure /\ race[k].first # None /\ now <= race[k].first + TTL)
            => race[k].nTrue = 1

\* three acquire calls raced for a free key: one won, two were refused
C1_Witness ==
    \E k \in LockKeys :
        /\ \A w \in LockWorkers : lock_key[w] = k /\ lock_doc_ref[w]
        /\ race[k].pure /\ race[k].first # None /\ now <= race[k].first + TTL
        /\ race[k].nTrue = 1 /\ race[k].nFalse = 2

\* C5: an acquire on a key whose stored record is present with expires_at
\* earlier than the current time returns true, and the record it leaves has
\* expires_at = the acquisition time + TTL.
C5_Reclaim ==
    [][\A w \in LockWorkers :
        (/\ last'.op = "acquire" /\ last'.w = w /\ lock_doc_ref'[w]
         /\ ~(UNCHANGED <<last, lock_doc_ref, file_locks>>)
         /\ file_locks[lock_key[w]].exists
         /\ file_locks[lock_key[w]].expires_at < now)
        => (/\ last'.value
            /\ acquired_at'[w] = now
            /\ file_locks'[lock_key[w]].exists
            /\ file_locks'[lock_key[w]].expires_at = now + TTL)]_vars

\* an acquire has just returned true on a record that was still stored
C5_Witness ==
    /\ last.op = "acquire" /\ last.saw = "expired" /\ last.value
    /\ file_locks[lock_key[last.w]].expires_at = last.at + TTL

\* C6 as stated: after a worker crashed holding the lock, every other
\* worker eventually has an acquire call return true.
C6_EveryRetrierWins ==
    \A w \in LockWorkers :
        (last.op = "crash" /\ last.w # w /\ lpc[w] # "crashed")
            ~> (lpc[w] = "crashed" \/ (last.op = "acquire" /\ last.w = w /\ last.value))

\* C6 amended: after a worker crashed holding the lock, an acquire call of
\* some other worker eventually returns true.
C6_SomeRetrierWins ==
    \A h \in LockWorkers :
        (last.op = "crash" /\ last.w = h /\ \E w \in LockWorkers : lpc[w] # "crashed")
            ~> (last.op = "acquire" /\ last.w # h /\ last.value)

\* the record a crashed holder left behind was reclaimed by another worker
C6_Witness ==
    \E h \in LockWorkers :
        /\ lpc[h] = "crashed"
        /\ last.op = "acquire" /\ last.w # h /\ last.value /\ last.saw = "expired"

\* C2 as stated: two process_file calls on the same (repository, path)
\* carrying different commit ids are never both between their record write
\* and the end of their metadata update (the section _index_file_with_lock
\* was to run under the per-file lock).
C2_WritesSerialized ==
    \A v, w \in IdxWorkers :
        (v # w /\ ipc[v] # "idle" /\ ipc[w] # "idle" /\ call[v].path = call[w].path)
            => call[v].commit = call[w].commit

\* C3 as stated: a process_file call that repeats the (repository, path,
\* content, commit) of a finished call is skipped: it returns false and
\* stores no record.
C3_SecondCallSkipped ==
    (lastpf.w # "" /\ lastpf.dup) => (~lastpf.value /\ ~lastpf.wrote)

\* C4 as stated: file_indexes never holds two records with the same
\* (repoId, filePath).
C4_OneRecordPerFile ==
    \A i, j \in 1..Len(file_indexes) :
        (file_indexes[i].repoId = file_indexes[j].repoId
         /\ file_indexes[i].filePath = file_indexes[j].filePath) => i = j

\* C7 as stated: a process_file call made while another worker held the
\* unexpired lock of its (repository, path) returns false, stores no record
\* and does not change processedFiles.
C7_LockedCallSkips ==
    (lastpf.w # "" /\ lastpf.locked)
        => (~lastpf.value /\ ~lastpf.wrote /\ ~lastpf.counted)

C10_AllowList ==
    [][(run.kind = "commit" /\ run.todo # <<>> /\ run' # run) =>
        LET p == Head(run.todo)
            e == run'.log[Len(run'.log)]
        IN  /\ e.path = p
            /\ (Len(p) > 1 /\ p[1] \notin {"src", "app", "packages"}) =>
                    /\ ~e.invoked /\ ~e.parsed
                    /\ run'.skipped = run.skipped + 1
                    /\ run'.processed = run.processed
                    /\ run'.failed = run.failed
                    /\ file_indexes' = file_indexes
                    /\ repositories' = repositories
            /\ (Len(p) = 1 /\ p \notin run.deleted) =>
                    /\ e.bucket # "skipped"
                    /\ e.found => e.invoked]_vars

\* a finished commit run that skipped vendor/lib.ts and processed index.ts
C10_Witness ==
    /\ run.kind = "commit_done"
    /\ \E i \in 1..Len(run.log) :
            run.log[i].path = PathVendor /\ run.log[i].bucket = "skipped" /\ ~run.log[i].invoked
    /\ \E i \in 1..Len(run.log) :
            run.log[i].path = PathRoot /\ run.log[i].bucket = "processed" /\ run.log[i].invoked

\* C11: an iteration of the process_commit loop on a path the commit
\* reports as deleted does not call process_file, leaves file_indexes (so
\* any record of that path) and the metadata alone, and adds one to skipped
\* and nothing to processed or failed, whether or not the path is in an
\* allow-listed folder.
C11_DeletedNotProcessed ==
    [][(run.kind = "commit" /\ run.todo # <<>> /\ run' # run /\ Head(run.todo) \in run.deleted) =>
        LET e == run'.log[Len(run'.log)]
        IN  /\ e.path = Head(run.todo)
            /\ ~e.invoked /\ ~e.parsed
            /\ e.bucket = "skipped"
            /\ file_indexes' = file_indexes
            /\ repositories' = repositories
            /\ run'.skipped = run.skipped + 1
            /\ run'.processed = run.processed
            /\ run'.failed = run.failed]_vars

\* a finished commit run that deleted app/b.py, whose record from the scan
\* is still stored, and vendor/lib.ts; both were counted skipped
C11_Witness ==
    /\ run.kind = "commit_done"
    /\ run.deleted = {PathApp, PathVendor}
    /\ \E k \in 1..Len(file_indexes) : file_indexes[k].filePath = PathApp
    /\ \A i \in 1..Len(run.log) :
            run.log[i].path \in run.deleted
                => (run.log[i].bucket = "skipped" /\ ~run.log[i].invoked)
    /\ run.skipped >= 2

\* C12 as stated: should_process_file, when its lookup does not fail,
\* returns false exactly when some stored record of the (repository, path)
\* has the incoming fingerprint.
C12_SkipIffSameFingerprint ==
    (gate.op = "hash" /\ gate.raised = {}) => (gate.value = ~gate.same)

\* C13 as stated: no process_file call stores a record for a file whose
\* commit timestamp is strictly earlier than the lastCommitTimestamp of a
\* record already stored for that file.
C13_NoOlderDelivery ==
    [][Len(file_indexes') > Len(file_indexes) =>
        LET r == file_indexes'[Len(file_indexes')]
        IN  \A k \in 1..Len(file_indexes) :
                (file_indexes[k].repoId = r.repoId /\ file_indexes[k].filePath = r.filePath)
                    => ~(r.lastCommitTimestamp < file_indexes[k].lastCommitTimestamp)]_vars

\* C14: a dedup check in which the store lookup or the timestamp parsing
\* raised has returned true.
C14_FailOpen ==
    (gate.op \in {"hash", "timestamp"} /\ gate.raised # {}) => gate.value

\* the timestamp check could not parse the incoming timestamp of a file
\* that has a stored record, and returned true
C14_Witness ==
    /\ gate.op = "timestamp"
    /\ gate.raised = {"parse"}
    /\ gate.found
    /\ gate.value

\* C15 as stated: from one store state to the next, processedFiles of a
\* stored repository document never decreases.
C15_ProcessedFilesMonotone ==
    [][\A d \in DOMAIN repositories :
        (repositories[d].exists /\ repositories'[d].exists)
            => repositories'[d].processedFiles >= repositories[d].processedFiles]_vars

C17_AbortMarksFailed ==
    run.kind \in {"scan_raised", "commit_raised"} =>
        \E d \in DOMAIN repositories :
            /\ repositories[d].exists
            /\ repositories[d].status = "failed"
            /\ repositories[d].errorMessage = run.error

\* C18 as stated: two fingerprint computations on the same content, one
\* after the other, return the same value.
C18_FingerprintOfContentAlone ==
    (gate.op = "fingerprint" /\ gate.before # <<>> /\ gate.before[1] = gate.content)
        => gate.before[2] = gate.value

\* C19 as stated: parse_file on a supported file that has a declaration
\* that is extracted and one whose extraction raises returns the exports of
\* the extracted ones, in order, and at least one entry in parse_errors.
C19_PartialResult ==
    (/\ gate.op = "parse"
     /\ gate.fault = "none"
     /\ gate.result.language # "unknown"
     /\ \E i, j \in 1..Len(gate.decls) : gate.decls[i].ok /\ ~gate.decls[j].ok)
        => /\ gate.result.exports = ExtractExports(gate.decls)
           /\ Len(gate.result.parse_errors) >= 1

\* C20: every stored FileIndex document has a fileHash and a lastCommitSHA
\* that are not empty and have at least 7 characters, and a process_file
\* call whose FileIndex was rejected by the validator returned false and
\* stored nothing.
C20_NoShortSha ==
    /\ \A k \in 1..Len(file_indexes) :
            /\ file_indexes[k].fileHash # "" /\ Len(file_indexes[k].fileHash) >= 7
            /\ file_indexes[k].lastCommitSHA # "" /\ Len(file_indexes[k].lastCommitSHA) >= 7
    /\ (lastpf.w # "" /\ "construct" \in lastpf.raised)
            => (~lastpf.value /\ ~lastpf.wrote /\ ~lastpf.counted)

\* process_file was called with the 5-character commit id after a record
\* had been stored, returned false, and the store has no record of that
\* commit id
C20_Witness ==
    /\ lastpf.w # ""
    /\ lastpf.raised = {"construct"}
    /\ ~lastpf.value /\ ~lastpf.wrote
    /\ Len(file_indexes) >= 1
    /\ \A k \in 1..Len(file_indexes) : file_indexes[k].lastCommitSHA # CommitShort

\* C21: a release by a worker that acquired returns true and leaves no
\* record under the key; on a key with no record is_locked returns false
\* and changes nothing and an acquire by any worker returns true; a release
\* by a worker that holds no acquisition returns false and leaves the store
\* as it was.
C21_RoundTrip ==
    [][\A w \in OpsWorkers :
        /\ (Release(w) /\ acquired_at[w] # None /\ lock_doc_ref[w])
                => (last'.value /\ ~file_locks'[lock_key[w]].exists /\ acquired_at'[w] = None)
        /\ (Release(w) /\ acquired_at[w] = None)
                => (~last'.value /\ file_locks' = file_locks)
        /\ (IsLocked(w) /\ ~file_locks[lock_key[w]].exists)
                => (last'.op = "is_locked" /\ last'.w = w /\ ~last'.value /\ file_locks' = file_locks)
        /\ (Acquire(w) /\ ~file_locks[lock_key[w]].exists)
                => (last'.value /\ file_locks'[lock_key[w]].exists)]_vars

\* within the TTL of the first acquisition one worker acquired and released
\* and the other worker's acquire then found no record and returned true
C21_Witness ==
    /\ last.op = "acquire" /\ last.value /\ last.saw = "absent"
    /\ race[lock_key[last.w]].nTrue = 2
    /\ now = race[lock_key[last.w]].first
    /\ \E w \in OpsWorkers :
        w # last.w /\ lock_key[w] = lock_key[last.w] /\ lock_doc_ref[w] /\ acquired_at[w] = None

\* C22: an is_locked call on a key whose record has expired goes on to
\* remove the record and returns false, an acquire on such a key returns
\* true, and an is_locked call returns true exactly when the key has a
\* record that has not expired.
C22_ExpiredReadAsAbsent ==
    [][\A w \in OpsWorkers :
        LET doc == file_locks[lock_key[w]]
            expired == doc.exists /\ Expired(doc.expires_at, now)
        IN  /\ (IsLocked(w) /\ expired) => lpc'[w] = "cleanup"
            /\ IsLockedCleanup(w) => (~last'.value /\ ~file_locks'[lock_key[w]].exists)
            /\ (IsLocked(w) /\ ~expired)
                    => (last'.op = "is_locked" /\ last'.w = w /\ (last'.value <=> doc.exists))
            /\ (Acquire(w) /\ expired) => last'.value]_vars

\* C23: an extend_ttl call by the worker whose acquisition wrote the stored
\* record returns true and leaves a stored expires_at that is not earlier
\* than the one stored before the call; an extend_ttl call by a worker that
\* holds no acquisition returns false and leaves the record unchanged.
C23_ExtendNeverShortens ==
    [][\A w \in OpsWorkers, s \in Extras :
        LET doc == file_locks[lock_key[w]]
            holder == /\ acquired_at[w] # None /\ lock_doc_ref[w]
                      /\ doc.exists /\ doc.acquired_at = acquired_at[w]
        IN  /\ (ExtendTtl(w, s) /\ holder)
                    => (/\ last'.value
                        /\ file_locks'[lock_key[w]].exists
                        /\ file_locks'[lock_key[w]].expires_at >= doc.expires_at)
            /\ (ExtendTtl(w, s) /\ acquired_at[w] = None)
                    => (~last'.value /\ file_locks' = file_locks)]_vars

\* C26: no two workers are at the same time inside the TTL of an
\* acquisition of the same key that returned true and that they have not
\* released; in particular a release by a worker whose record expired and
\* was reclaimed leaves the reclaiming worker's record in place.
C26_ReleaseOnlyOwnRecord ==
    \A w1, w2 \in LockWorkers :
        (/\ w1 # w2 /\ lock_key[w1] = lock_key[w2]
         /\ acquired_at[w1] # None /\ acquired_at[w2] # None)
            => ~(now <= acquired_at[w1] + TTL /\ now <= acquired_at[w2] + TTL)

\* C27: the delete that is_locked issues after reading an expired record
\* never removes a record that is unexpired when the delete runs.
C27_CleanupSparesLiveRecord ==
    [][\A w \in OpsWorkers :
        LET doc == file_locks[lock_key[w]]
        IN  IsLockedCleanup(w) => ~(doc.exists /\ ~Expired(doc.expires_at, now))]_vars

\* C24: every path of the changed-file set the commit analysis returns is
\* in exactly one of the added, modified and deleted sets, and for a commit
\* without parent the changed set and the added set are both the set of
\* all tracked files.
C24_ChangedPathsClassified ==
    gate.op = "analyze" =>
        LET r == gate.result
        IN  /\ \A p \in r.changed_files :
                Cardinality({s \in {"added", "modified", "deleted"} :
                    p \in (CASE s = "added" -> r.added_files
                             [] s = "modified" -> r.modified_files
                             [] s = "deleted" -> r.deleted_files)}) = 1
            /\ ~gate.has_parents =>
                (r.changed_files = gate.tree /\ r.added_files = gate.tree)

\* C25: the lineNumber of every method, constructor and property the
\* fallback class extraction reports is the 1-based line of the file on
\* which the member's declaration starts.
C25_MemberLineIsFileLine ==
    gate.op = "class" =>
        \A m \in gate.members : m.lineNumber = CountNl(gate.content, m.pos) + 1

\* C28: when process_commit has returned, processed + failed + skipped is
\* the number of changed files of the commit, and when index_repository has
\* returned it is total_files; every file of the run went through exactly
\* one loop iteration.
C28_EveryFileInOneBucket ==
    run.kind \in {"commit_done", "scan_done"} =>
        /\ run.processed + run.failed + run.skipped = run.total
        /\ Len(run.log) = run.total
        /\ \A i, j \in 1..Len(run.log) : i # j => run.log[i].path # run.log[j].path
        /\ run.kind = "scan_done" => repositories[RepoUid].totalFiles = run.total

\* a commit delivery that returned with files in each of the three buckets
C28_Witness ==
    /\ run.kind = "commit_done"
    /\ run.processed >= 1 /\ run.failed >= 1 /\ run.skipped >= 1
    /\ run.processed + run.failed + run.skipped = run.total

\* C29: the stored processedFiles of the repository grows by one for each
\* process_file call that returned true: during and after a scan it is the
\* number of files the scan processed, and after a commit delivery it is
\* that number plus the number of files the delivery processed.
C29_CountedExactlyOnce ==
    /\ (run.kind \in {"scan", "scan_done"} /\ repositories[Repo].exists)
            => repositories[Repo].processedFiles = run.processed
    /\ run.kind = "commit_done"
            => repositories[Repo].processedFiles
                    = repositories[RepoUid].processedFiles + run.processed

\* C30: when index_repository has returned, the repository has one
\* metadata row, no metadata row of it is in status processing, and the
\* row process_commit looks up by the repository's identifier exists.
C30_SingleMetadataRow ==
    run.kind = "scan_done" =>
        /\ Cardinality({r \in {Repo, RepoUid} : repositories[r].exists}) = 1
        /\ \A r \in {Repo, RepoUid} :
                repositories[r].exists => repositories[r].status # "processing"
        /\ repositories[Repo].exists

====
